---- MODULE Spec2Model ----
(***************************************************************************)
(* Student grade server (src/node.js): an HTTP server that keeps a table   *)
(* of student records in one CSV file.  Every handler re-reads the file    *)
(* (getStudents) and, to change it, rewrites it whole (saveStudents); the  *)
(* export and upload routes stream the raw bytes.                          *)
(*                                                                         *)
(* Text is modelled as a sequence of one-character strings, so that        *)
(* split(','), split('\n'), trim() and join(',') are computed as the code  *)
(* computes them.  A record (a JavaScript object with string keys) is a    *)
(* sequence of <<key, value>> pairs with distinct keys, in insertion       *)
(* order.  File operations are modelled at the granularity of the system   *)
(* calls the fs functions make: open (which truncates under flag 'w'),     *)
(* write at the descriptor's offset, read.                                 *)
(***************************************************************************)
EXTENDS Integers, Sequences, FiniteSets, TLC

\* ------------------------------------------------------------------ text

NL == "\n"
COMMA == ","

\* The characters String.prototype.trim() removes (those the model's texts use).
WhiteSpace == {" ", "\n", "\t", "\r"}

UpperCase ==
  <<"A","B","C","D","E","F","G","H","I","J","K","L","M",
    "N","O","P","Q","R","S","T","U","V","W","X","Y","Z">>

LowerCase ==
  <<"a","b","c","d","e","f","g","h","i","j","k","l","m",
    "n","o","p","q","r","s","t","u","v","w","x","y","z">>

SetMin(S) == CHOOSE x \in S : \A y \in S : x <= y

SetMax(S) == CHOOSE x \in S : \A y \in S : y <= x

\* String.prototype.trim()
Trim(s) ==
  LET keep == {i \in 1..Len(s) : s[i] \notin WhiteSpace}
  IN  IF keep = {} THEN <<>> ELSE SubSeq(s, SetMin(keep), SetMax(keep))

\* String.prototype.split(sep) for a one-character separator: always at
\* least one field ("".split(',') is [""]).
RECURSIVE Split(_, _)
Split(s, sep) ==
  LET at == {i \in 1..Len(s) : s[i] = sep}
  IN  IF at = {} THEN <<s>>
      ELSE LET i == SetMin(at)
           IN  <<SubSeq(s, 1, i - 1)>> \o Split(SubSeq(s, i + 1, Len(s)), sep)

\* Array.prototype.join(sep) on an array of strings.
RECURSIVE Join(_, _)
Join(parts, sep) ==
  IF Len(parts) = 0 THEN <<>>
  ELSE IF Len(parts) = 1 THEN parts[1]
  ELSE parts[1] \o <<sep>> \o Join(Tail(parts), sep)

\* String.prototype.toLowerCase()
toLowerCase(s) ==
  [i \in 1..Len(s) |->
     IF \E k \in 1..Len(UpperCase) : UpperCase[k] = s[i]
     THEN LowerCase[CHOOSE k \in 1..Len(UpperCase) : UpperCase[k] = s[i]]
     ELSE s[i]]

\* String.prototype.includes(sub)
includes(s, sub) ==
  \E i \in 0..(Len(s) - Len(sub)) : SubSeq(s, i + 1, i + Len(sub)) = sub

\* ------------------------------------------------------------- records

\* Object.keys(obj) / Object.values(obj), in insertion order.
Keys(obj) == [i \in 1..Len(obj) |-> obj[i][1]]

Values(obj) == [i \in 1..Len(obj) |-> obj[i][2]]

HasKey(obj, k) == \E i \in 1..Len(obj) : obj[i][1] = k

\* obj[k]; only used where HasKey(obj, k).
Get(obj, k) == obj[CHOOSE i \in 1..Len(obj) : obj[i][1] = k][2]

\* obj[k] = v: an existing key keeps its place, a new key goes last.
Put(obj, k, v) ==
  IF HasKey(obj, k)
  THEN [i \in 1..Len(obj) |-> IF obj[i][1] = k THEN <<k, v>> ELSE obj[i]]
  ELSE Append(obj, <<k, v>>)

\* --------------------------------------------------------------- codec

\* 'name'
nameKey == <<"n","a","m","e">>

\* A mutant of DefaultHeader: the marks column is left out.
headerNoMarks == <<"n","a","m","e",",","r","o","l","l">>

\* The literal 'name,roll,marks' saveStudents writes for an empty array.
DefaultHeader ==
  <<"n","a","m","e",",","r","o","l","l",",","m","a","r","k","s">>

\* headers.forEach((header, index) => student[header.trim()] =
\* values[index].trim()), from index k on.
RECURSIVE ZipRow(_, _, _, _)
ZipRow(headers, values, k, student) ==
  IF k > Len(headers) THEN student
  ELSE ZipRow(headers, values, k + 1,
              Put(student, Trim(headers[k]), Trim(values[k])))

\* The parse of getStudents: [threw |-> TRUE] when values[index] is
\* undefined for some header (a row with fewer fields than the header), so
\* that .trim() raises a TypeError; otherwise the array of students.
ParseCSV(data) ==
  LET rows0   == Split(Trim(data), NL)
      headers == Split(Head(rows0), COMMA)
      rows    == Tail(rows0)
      short   == \E r \in 1..Len(rows) :
                    Len(Split(rows[r], COMMA)) < Len(headers)
  IN  IF short THEN [threw |-> TRUE, students |-> <<>>]
      ELSE [threw |-> FALSE,
            students |-> [r \in 1..Len(rows) |->
                            ZipRow(headers, Split(rows[r], COMMA), 1, <<>>)]]

\* A mutant of getStudents: every read error resolves with [], as ENOENT
\* does.
getStudentsLenient(rd) ==
  IF rd.err # "" THEN [outcome |-> "resolve", students |-> <<>>]
  ELSE IF rd.data = <<>> THEN [outcome |-> "resolve", students |-> <<>>]
  ELSE LET p == ParseCSV(rd.data)
       IN  IF p.threw THEN [outcome |-> "throw", students |-> <<>>]
           ELSE [outcome |-> "resolve", students |-> p.students]

\* A mutant of getStudents: ENOENT is rejected like any other error.
getStudentsStrict(rd) ==
  IF rd.err # "" THEN [outcome |-> "reject", students |-> <<>>]
  ELSE IF rd.data = <<>> THEN [outcome |-> "resolve", students |-> <<>>]
  ELSE LET p == ParseCSV(rd.data)
       IN  IF p.threw THEN [outcome |-> "throw", students |-> <<>>]
           ELSE [outcome |-> "resolve", students |-> p.students]

\* The readFile callback of getStudents on the outcome rd of the read:
\* "resolve" with the students, "reject" with the error, or "throw" (an
\* exception raised inside the callback, outside every try block and outside
\* the promise executor: nothing catches it).
getStudents(rd) ==
  IF rd.err = "ENOENT" THEN [outcome |-> "resolve", students |-> <<>>]
  ELSE IF rd.err # "" THEN [outcome |-> "reject", students |-> <<>>]
  ELSE IF rd.data = <<>> THEN [outcome |-> "resolve", students |-> <<>>]
  ELSE LET p == ParseCSV(rd.data)
       IN  IF p.threw THEN [outcome |-> "throw", students |-> <<>>]
           ELSE [outcome |-> "resolve", students |-> p.students]

\* A mutant of csvContent: the header line is left out.
csvRowsOnly(students) ==
  Join([r \in 1..Len(students) |-> Join(Values(students[r]), COMMA)], NL)

\* The text saveStudents hands to fs.writeFile.
csvContent(students) ==
  IF Len(students) = 0 THEN DefaultHeader
  ELSE LET headers == Join(Keys(students[1]), COMMA)
           rows    == [r \in 1..Len(students) |->
                         Join(Values(students[r]), COMMA)]
       IN  headers \o <<NL>> \o Join(rows, NL)

\* querystring.parse(body) for bodies without percent escapes, '+' or a
\* repeated key: pairs split on '&' (empty pairs skipped), each split at its
\* first '='.
RECURSIVE QsPairs(_, _)
QsPairs(pairs, obj) ==
  IF Len(pairs) = 0 THEN obj
  ELSE LET p  == Head(pairs)
           eq == {i \in 1..Len(p) : p[i] = "="}
           k  == IF eq = {} THEN p ELSE SubSeq(p, 1, SetMin(eq) - 1)
           v  == IF eq = {} THEN <<>> ELSE SubSeq(p, SetMin(eq) + 1, Len(p))
       IN  QsPairs(Tail(pairs), IF p = <<>> THEN obj ELSE Put(obj, k, v))

querystringParse(body) == QsPairs(Split(body, "&"), <<>>)

\* students.filter(s => s.name.toLowerCase().includes(name.toLowerCase())):
\* [threw |-> TRUE] when some s.name is undefined.
RECURSIVE Filter(_, _)
Filter(students, name) ==
  IF Len(students) = 0 THEN <<>>
  ELSE LET s == Head(students)
       IN  (IF includes(toLowerCase(Get(s, nameKey)), toLowerCase(name))
            THEN <<s>> ELSE <<>>) \o Filter(Tail(students), name)

\* A mutant of searchResults: the comparison is case-sensitive.
RECURSIVE FilterExact(_, _)
FilterExact(students, name) ==
  IF Len(students) = 0 THEN <<>>
  ELSE (IF includes(Get(Head(students), nameKey), name)
        THEN <<Head(students)>> ELSE <<>>) \o FilterExact(Tail(students), name)

searchCaseSensitive(students, name) ==
  IF \E r \in 1..Len(students) : ~HasKey(students[r], nameKey)
  THEN [threw |-> TRUE, results |-> <<>>]
  ELSE [threw |-> FALSE, results |-> FilterExact(students, name)]

searchResults(students, name) ==
  IF \E r \in 1..Len(students) : ~HasKey(students[r], nameKey)
  THEN [threw |-> TRUE, results |-> <<>>]
  ELSE [threw |-> FALSE, results |-> Filter(students, name)]

\* --------------------------------------------------------------- files

\* The byte a hole in a file reads as.
NUL == "NUL"

\* write(fd, bytes) at offset off of a file holding data: the bytes replace
\* what was there, bytes beyond them stay, a gap before them reads as NUL.
WriteAt(data, off, bytes) ==
  LET n == IF Len(data) > off + Len(bytes) THEN Len(data) ELSE off + Len(bytes)
  IN  [i \in 1..n |->
         IF i > off /\ i <= off + Len(bytes) THEN bytes[i - off]
         ELSE IF i <= Len(data) THEN data[i]
         ELSE NUL]

\* -------------------------------------------------------------- server

VARIABLES
  file,     \* students.csv: [exists, data]
  reqs,     \* the requests received so far, in order of arrival
  crashed,  \* an exception reached the top of the event loop: the process is gone
  trip      \* a table taken through saveStudents and getStudents (SpecCodec)

vars == <<file, reqs, crashed, trip>>

\* How many requests a behaviour receives from concurrent clients.
MaxReq == 2

\* How many requests a behaviour receives from the one client of SpecClient.
MaxSeq == 3

\* A mutant of Route: /students is matched whatever the method is.
RouteAnyMethod(method, path) ==
  IF method = "OPTIONS" THEN "options"
  ELSE IF path = "/" /\ method = "GET" THEN "index"
  ELSE IF path = "/students" THEN "list"
  ELSE IF path = "/add" /\ method = "POST" THEN "add"
  ELSE IF path = "/search" /\ method = "GET" THEN "search"
  ELSE IF path = "/export" /\ method = "GET" THEN "export"
  ELSE IF path = "/upload" /\ method = "POST" THEN "upload"
  ELSE "notfound"

\* The routing of the request handler: OPTIONS first, then the if/else chain.
Route(method, path) ==
  IF method = "OPTIONS" THEN "options"
  ELSE IF path = "/" /\ method = "GET" THEN "index"
  ELSE IF path = "/students" /\ method = "GET" THEN "list"
  ELSE IF path = "/add" /\ method = "POST" THEN "add"
  ELSE IF path = "/search" /\ method = "GET" THEN "search"
  ELSE IF path = "/export" /\ method = "GET" THEN "export"
  ELSE IF path = "/upload" /\ method = "POST" THEN "upload"
  ELSE "notfound"

\* A mutant of NameMissing: only a missing parameter is refused
\* (name === undefined for !name).
NameAbsent(query) == ~query.has

\* if (!name): the query has no name parameter, or an empty one.
NameMissing(query) == ~query.has \/ query.name = <<>>

\* A request: method and path, the name parameter of the query, the body as
\* the chunks the 'data' events deliver, and whether the body ever ends.
Request(method, path, query, chunks, ends) ==
  [method |-> method, path |-> path, query |-> query,
   chunks |-> chunks, ends |-> ends]

NoQuery == [has |-> FALSE, name |-> <<>>]

\* The message of the response body that goes with a status on a route; ""
\* where the body carries no message (204, a table, the file's bytes).
Message(route, status) ==
  CASE status = 404 -> "Route not found"
    [] status = 400 -> "Name query parameter is required"
    [] status = 201 -> "Student added successfully"
    [] status = 200 /\ route = "upload" -> "File uploaded successfully"
    [] status = 500 /\ route = "index" -> "Error loading index.html"
    [] status = 500 /\ route = "list" -> "Error fetching students"
    [] status = 500 /\ route = "add" -> "Error adding student"
    [] status = 500 /\ route = "search" -> "Error searching students"
    [] status = 500 /\ route = "upload" -> "Error uploading file"
    [] OTHER -> ""

\* The handler's state for request in, just after the synchronous part of the
\* handler has run.  status = 0: no response yet.  after: the requests that
\* had been answered when this one arrived; solo: no other request was at
\* work at any time this one was.
NewReq(in, after, solo) ==
  LET route == Route(in.method, in.path)
      early == CASE route = "options" -> 204
                 [] route = "notfound" -> 404
                 [] route = "search" /\ NameMissing(in.query) -> 400
                 [] OTHER -> 0
  IN  [in |-> in, route |-> route,
       pc |-> CASE early # 0 -> "done"
                [] route \in {"list", "search"} -> "read"
                [] route = "add" -> "body"
                [] route = "export" -> "stream"
                [] route = "upload" -> "pipe"
                [] OTHER -> "index",
       status |-> early,
       heads |-> IF early # 0 THEN 1 ELSE 0,  \* res.writeHead calls that wrote
       msg |-> Message(route, early),
       out |-> <<>>,          \* the table or the bytes of the response
       students |-> <<>>,     \* add: what getStudents resolved with
       newStudent |-> <<>>,   \* add: querystring.parse(body)
       csv |-> <<>>,          \* add: the text handed to fs.writeFile
       fd |-> IF route = "upload" THEN "opening" ELSE "none",
       src |-> IF route = "upload" THEN "flowing" ELSE "none",
       left |-> in.chunks,    \* body chunks not yet delivered
       wbuf |-> <<>>,         \* upload: chunks the write stream still holds
       off |-> 0,             \* upload: the descriptor's offset
       emits |-> <<>>,        \* the dataChanged events of this request
       reads |-> 0,           \* reads of students.csv
       rerr |-> "none",       \* how its read of students.csv ended
       writes |-> 0,          \* opens-for-write and writes of students.csv
       wafter |-> {},         \* the requests that had finished when this one
                              \* opened students.csv for writing
       snap |-> IF early # 0 THEN file ELSE [exists |-> FALSE, data |-> <<>>],
       after |-> after, solo |-> solo]

\* The request still has work queued on the event loop or in the thread pool.
Active(r) ==
  IF r.route = "upload"
  THEN \/ r.fd = "opening"
       \/ r.fd = "open" /\ (Len(r.wbuf) > 0 \/ r.src = "flowing")
  ELSE r.pc # "done"

Ids == 1..Len(reqs)

\* The requests with nothing left to do.
Finished == {j \in Ids : ~Active(reqs[j])}

\* The outcomes of reading students.csv: its bytes, ENOENT when it does not
\* exist, or another I/O error.
ReadOutcomes ==
  { IF file.exists THEN [err |-> "", data |-> file.data]
                   ELSE [err |-> "ENOENT", data |-> <<>>],
    [err |-> "EIO", data |-> <<>>] }

\* res.writeHead(status); res.end(out), file1 being the file at that moment.
\* snap keeps the file as the request last read it or as it was when the
\* request was answered.
Respond(r, status, out, file1) ==
  [r EXCEPT !.status = status, !.heads = @ + 1,
            !.msg = Message(r.route, status), !.out = out, !.snap = file1]

\* --------------------------------------------------------------- inputs

Absent == [exists |-> FALSE, data |-> <<>>]

Holding(data) == [exists |-> TRUE, data |-> data]

\* name / Al
csvOne == <<"n","a","m","e","\n","A","l">>

\* name,roll / Al,1 / bo,2
csvTwo == <<"n","a","m","e",",","r","o","l","l","\n","A","l",",","1","\n","b","o",",","2">>

\* name,roll / Al: the data row has fewer fields than the header
csvShort == <<"n","a","m","e",",","r","o","l","l","\n","A","l">>

\* roll / 1: no name column
csvNoName == <<"r","o","l","l","\n","1">>

\* The states of students.csv a behaviour starts from.
InitFiles ==
  {Absent, Holding(<<>>), Holding(csvOne), Holding(csvTwo),
   Holding(csvShort), Holding(csvNoName)}

Query(name) == [has |-> TRUE, name |-> name]

Get_(path, query) == Request("GET", path, query, <<>>, TRUE)

Post(path, chunks) == Request("POST", path, NoQuery, chunks, TRUE)

\* A POST whose body never ends: the chunks arrive, 'end' never does.
PostOpen(path, chunks) == Request("POST", path, NoQuery, chunks, FALSE)

\* name=Bo&roll=3
bodyBo == <<"n","a","m","e","=","B","o","&","r","o","l","l","=","3">>

\* name=Cy
bodyCy == <<"n","a","m","e","=","C","y">>

\* name= (an empty name and no other field)
bodyBlank == <<"n","a","m","e","=">>

\* The requests of Spec: every route, and an unrouted request.
Inputs ==
  { Get_("/students", NoQuery),
    Post("/add", <<bodyBo>>),
    Post("/add", <<bodyBlank>>),
    Get_("/search", Query(<<"B">>)),
    Get_("/search", Query(<<>>)),
    Get_("/search", NoQuery),
    Get_("/export", NoQuery),
    Post("/upload", <<<<"n","a","m","e","\n">>, <<"C","y">>>>),
    Post("/upload", <<>>),
    Request("OPTIONS", "/add", NoQuery, <<>>, TRUE),
    Request("DELETE", "/students", NoQuery, <<>>, TRUE),
    Get_("/", NoQuery) }

\* The requests of SpecAdd: adds and a list.
AddInputs ==
  { Post("/add", <<bodyCy>>), Post("/add", <<bodyBlank>>),
    Get_("/students", NoQuery) }

\* The requests of SpecRead: list and search, beside one add.
ReadInputs ==
  { Get_("/students", NoQuery),
    Get_("/search", Query(<<"B">>)),
    Get_("/search", Query(<<"l">>)),
    Get_("/search", Query(<<>>)),
    Get_("/search", NoQuery),
    Post("/add", <<bodyBo>>) }

\* The requests of SpecClient: export, upload of a file's bytes, list.
ClientInputs ==
  { Get_("/students", NoQuery), Get_("/export", NoQuery),
    Post("/upload", <<csvOne>>), Post("/upload", <<csvTwo>>),
    Post("/upload", <<>>) }

\* The requests of SpecBody: adds and uploads whose body ends, or never does.
BodyInputs ==
  { Post("/add", <<bodyCy>>), PostOpen("/add", <<bodyCy>>),
    Post("/upload", <<csvOne>>), PostOpen("/upload", <<csvOne>>) }

\* The requests of SpecRoute: OPTIONS on routed and unrouted paths, requests
\* whose method or path matches no route, and two routed requests.
RouteInputs ==
  { Request("OPTIONS", "/add", NoQuery, <<>>, TRUE),
    Request("OPTIONS", "/nowhere", NoQuery, <<>>, TRUE),
    Request("DELETE", "/students", NoQuery, <<>>, TRUE),
    Get_("/nowhere", NoQuery),
    Get_("/add", NoQuery),
    Post("/students", <<bodyCy>>),
    Get_("/students", NoQuery),
    Post("/add", <<bodyCy>>) }

\* The requests of SpecReadOnly: list, search and export, beside one add.
ReadOnlyInputs ==
  { Get_("/students", NoQuery),
    Get_("/search", Query(<<"B">>)),
    Get_("/export", NoQuery),
    Post("/add", <<bodyCy>>) }

\* The tables of SpecCodec: records over the column names ColNames with
\* values from Vals, rows times columns being at most MaxCells.  No name or
\* value holds a comma or a newline, and the records of one table have the
\* same set of columns; they need not list them in the same order.
MaxCells == 6

ColNames == {nameKey, <<"r">>, <<>>, <<" ", "x">>}

Vals == {<<>>, <<"A">>, <<" ", "b">>}

RecordsOver(S) ==
  LET n == Cardinality(S)
  IN  { [i \in 1..n |-> <<ks[i], vs[i]>>] :
          ks \in {f \in [1..n -> S] : \A i, j \in 1..n : f[i] = f[j] => i = j},
          vs \in [1..n -> Vals] }

Tables ==
  UNION { IF n * Cardinality(S) <= MaxCells THEN [1..n -> RecordsOver(S)]
          ELSE {} : n \in 0..MaxCells, S \in SUBSET ColNames }

\* ------------------------------------------------------------- actions

\* trip in the specifications of the server, which do not use it.
TripOff == [phase |-> "off", students |-> <<>>, loaded |-> <<>>]

Init ==
  /\ file \in InitFiles
  /\ reqs = <<>>
  /\ crashed = FALSE
  /\ trip = TripOff

\* The synchronous part of the handler runs on request in.
Accept(in) ==
  LET busy == {j \in Ids : Active(reqs[j])}
      r    == NewReq(in, {j \in Ids : reqs[j].status # 0}, busy = {})
  IN  reqs' = Append([j \in Ids |->
                        IF j \in busy /\ Active(r)
                        THEN [reqs[j] EXCEPT !.solo = FALSE]
                        ELSE reqs[j]], r)

\* A request arrives, whatever the earlier requests are doing.
Arrive(in) ==
  /\ ~crashed
  /\ Len(reqs) < MaxReq
  /\ Accept(in)
  /\ UNCHANGED <<file, crashed, trip>>

\* One client sends its next request once the last one has been answered.
ArriveNext(in) ==
  /\ ~crashed
  /\ Len(reqs) < MaxSeq
  /\ \A j \in Ids : reqs[j].status # 0
  /\ Accept(in)
  /\ UNCHANGED <<file, crashed, trip>>

\* A mutant of ListRead: the read opens the file with a flag that creates it
\* when it is missing.
ListReadCreates(i) ==
  /\ ~crashed
  /\ i \in Ids
  /\ reqs[i].route = "list"
  /\ reqs[i].pc = "read"
  /\ reqs' = [reqs EXCEPT ![i] =
       [Respond([@ EXCEPT !.reads = @ + 1, !.rerr = ""], 200,
                getStudents([err |-> "", data |-> file.data]).students, file)
          EXCEPT !.pc = "done"]]
  /\ file' = IF file.exists THEN file ELSE Holding(<<>>)
  /\ UNCHANGED <<crashed, trip>>

\* GET /students: the readFile callback of getStudents and the code after
\* the await.
ListRead(i) ==
  /\ ~crashed
  /\ i \in Ids
  /\ reqs[i].route = "list"
  /\ reqs[i].pc = "read"
  /\ \E rd \in ReadOutcomes :
       LET g == getStudents(rd)
           r == [reqs[i] EXCEPT !.reads = @ + 1, !.rerr = rd.err, !.snap = file]
       IN  /\ crashed' = (g.outcome = "throw")
           /\ reqs' = [reqs EXCEPT ![i] =
                CASE g.outcome = "throw" -> r
                  [] g.outcome = "resolve" ->
                       [Respond(r, 200, g.students, file) EXCEPT !.pc = "done"]
                  [] OTHER ->
                       [Respond(r, 500, <<>>, file) EXCEPT !.pc = "done"]]
  /\ UNCHANGED <<file, trip>>

\* body += chunk for every chunk
RECURSIVE Concat(_)
Concat(chunks) ==
  IF Len(chunks) = 0 THEN <<>> ELSE Head(chunks) \o Concat(Tail(chunks))

\* POST /add: the body has arrived ('data' events, then 'end'); the body is
\* parsed and getStudents is called.
AddEnd(i) ==
  /\ ~crashed
  /\ i \in Ids
  /\ reqs[i].route = "add"
  /\ reqs[i].pc = "body"
  /\ reqs[i].in.ends
  /\ reqs' = [reqs EXCEPT ![i] =
       [@ EXCEPT !.newStudent = querystringParse(Concat(reqs[i].left)),
                 !.left = <<>>, !.pc = "read"]]
  /\ UNCHANGED <<file, crashed, trip>>

\* A mutant of push: the new record goes first (unshift for push).
unshift(students, newStudent) == <<newStudent>> \o students

\* students.push(newStudent)
push(students, newStudent) == Append(students, newStudent)

\* POST /add: the readFile callback; on success students.push(newStudent)
\* and saveStudents builds the text and calls fs.writeFile.
AddRead(i) ==
  /\ ~crashed
  /\ i \in Ids
  /\ reqs[i].route = "add"
  /\ reqs[i].pc = "read"
  /\ \E rd \in ReadOutcomes :
       LET g == getStudents(rd)
           r == [reqs[i] EXCEPT !.reads = @ + 1, !.rerr = rd.err, !.snap = file]
       IN  /\ crashed' = (g.outcome = "throw")
           /\ reqs' = [reqs EXCEPT ![i] =
                CASE g.outcome = "throw" -> r
                  [] g.outcome = "resolve" ->
                       [r EXCEPT !.students = g.students,
                                 !.csv = csvContent(push(g.students, r.newStudent)),
                                 !.pc = "open"]
                  [] OTHER ->
                       [Respond(r, 500, <<>>, file) EXCEPT !.pc = "done"]]
  /\ UNCHANGED <<file, trip>>

\* open(path, 'w'): the file exists afterwards and is empty.
Truncated == Holding(<<>>)

\* POST /add: fs.writeFile opens the file (flag 'w'), or fails to.
AddOpen(i) ==
  /\ ~crashed
  /\ i \in Ids
  /\ reqs[i].route = "add"
  /\ reqs[i].pc = "open"
  /\ \E ok \in BOOLEAN :
       /\ file' = IF ok THEN Truncated ELSE file
       /\ reqs' = [reqs EXCEPT ![i] =
            IF ok THEN [@ EXCEPT !.pc = "write", !.writes = @ + 1,
                                 !.wafter = Finished]
            ELSE [Respond(@, 500, <<>>, file) EXCEPT !.pc = "done"]]
  /\ UNCHANGED <<crashed, trip>>

\* POST /add: fs.writeFile writes the text at offset 0 and the promise
\* settles; the code after the await emits 'added' and answers 201.
AddWrite(i) ==
  /\ ~crashed
  /\ i \in Ids
  /\ reqs[i].route = "add"
  /\ reqs[i].pc = "write"
  /\ \E ok \in BOOLEAN :
       LET file1 == IF ok THEN Holding(WriteAt(file.data, 0, reqs[i].csv))
                    ELSE file
       IN  /\ file' = file1
           /\ reqs' = [reqs EXCEPT ![i] =
                IF ok
                THEN [Respond(@, 201, <<@.newStudent>>, file1) EXCEPT
                        !.pc = "done", !.writes = @ + 1,
                        !.emits = Append(@, "added")]
                ELSE [Respond(@, 500, <<>>, file1) EXCEPT !.pc = "done"]]
  /\ UNCHANGED <<crashed, trip>>

\* GET /search with a name: the readFile callback, the filter, the answer.
SearchRead(i) ==
  /\ ~crashed
  /\ i \in Ids
  /\ reqs[i].route = "search"
  /\ reqs[i].pc = "read"
  /\ \E rd \in ReadOutcomes :
       LET g == getStudents(rd)
           f == searchResults(g.students, reqs[i].in.query.name)
           r == [reqs[i] EXCEPT !.reads = @ + 1, !.rerr = rd.err, !.snap = file]
       IN  /\ crashed' = (g.outcome = "throw")
           /\ reqs' = [reqs EXCEPT ![i] =
                CASE g.outcome = "throw" -> r
                  [] g.outcome = "resolve" /\ ~f.threw ->
                       [Respond(r, 200, f.results, file) EXCEPT !.pc = "done"]
                  [] OTHER ->
                       [Respond(r, 500, <<>>, file) EXCEPT !.pc = "done"]]
  /\ UNCHANGED <<file, trip>>

\* GET /export: fs.createReadStream(csvFilePath).pipe(res).  The read stream
\* has no 'error' listener: a failed open or read is an unhandled 'error'
\* event.
ExportStream(i) ==
  /\ ~crashed
  /\ i \in Ids
  /\ reqs[i].route = "export"
  /\ reqs[i].pc = "stream"
  /\ \E rd \in ReadOutcomes :
       /\ crashed' = (rd.err # "")
       /\ reqs' = [reqs EXCEPT ![i] =
            IF rd.err # ""
            THEN [@ EXCEPT !.reads = @ + 1, !.rerr = rd.err, !.snap = file]
            ELSE [Respond(@, 200, rd.data, file) EXCEPT
                    !.pc = "done", !.reads = @ + 1, !.rerr = rd.err]]
  /\ UNCHANGED <<file, trip>>

\* GET /: index.html is read (not students.csv) and sent, or 500.
IndexRead(i) ==
  /\ ~crashed
  /\ i \in Ids
  /\ reqs[i].route = "index"
  /\ reqs[i].pc = "index"
  /\ \E ok \in BOOLEAN :
       reqs' = [reqs EXCEPT ![i] =
         [Respond(@, IF ok THEN 200 ELSE 500, <<>>, file) EXCEPT !.pc = "done"]]
  /\ UNCHANGED <<file, crashed, trip>>

\* A mutant of OnWriteError: res.writeHead(500) writes a second head when
\* the 200 has been sent already, instead of throwing.
OnWriteErrorAgain(r, file1) ==
  Respond([r EXCEPT !.fd = "error", !.wbuf = <<>>, !.pc = "done",
                    !.src = IF @ = "flowing" THEN "unpiped" ELSE @],
          500, <<>>, file1)

\* The 'error' event of writeStream: pipe's own listener unpipes the
\* request (no more 'data', no 'end'), the stream is destroyed, and the
\* handler's listener calls res.writeHead(500), which throws
\* ERR_HTTP_HEADERS_SENT when the 200 has been sent already.
OnWriteError(r, file1) ==
  LET r1 == [r EXCEPT !.fd = "error", !.wbuf = <<>>, !.pc = "done",
                      !.src = IF @ = "flowing" THEN "unpiped" ELSE @]
  IN  IF r.status # 0 THEN r1 ELSE Respond(r1, 500, <<>>, file1)

\* pc of an upload after a step: "done" once neither stream has work left.
Settle(r) == [r EXCEPT !.pc = IF Active(r) THEN "pipe" ELSE "done"]

\* POST /upload: fs.createWriteStream opens the file (flag 'w'), or fails to.
UploadOpen(i) ==
  /\ ~crashed
  /\ i \in Ids
  /\ reqs[i].route = "upload"
  /\ reqs[i].fd = "opening"
  /\ \E ok \in BOOLEAN :
       /\ file' = IF ok THEN Truncated ELSE file
       /\ crashed' = (~ok /\ reqs[i].status # 0)
       /\ reqs' = [reqs EXCEPT ![i] =
            IF ok THEN Settle([@ EXCEPT !.fd = "open", !.writes = @ + 1,
                                        !.wafter = Finished])
            ELSE OnWriteError(@, file)]
  /\ UNCHANGED trip

\* POST /upload: a 'data' event; pipe hands the chunk to writeStream.write.
UploadData(i) ==
  /\ ~crashed
  /\ i \in Ids
  /\ reqs[i].route = "upload"
  /\ reqs[i].src = "flowing"
  /\ Len(reqs[i].left) > 0
  /\ reqs' = [reqs EXCEPT ![i] =
       [@ EXCEPT !.wbuf = Append(@, Head(reqs[i].left)), !.left = Tail(@)]]
  /\ UNCHANGED <<file, crashed, trip>>

\* A mutant of UploadEnd: the handler answers once the chunks sent so far
\* have been delivered, whether or not the body has ended.
UploadEndEarly(i) ==
  /\ ~crashed
  /\ i \in Ids
  /\ reqs[i].route = "upload"
  /\ reqs[i].src = "flowing"
  /\ Len(reqs[i].left) = 0
  /\ reqs' = [reqs EXCEPT ![i] =
       Settle([Respond(@, 200, <<>>, file) EXCEPT
                 !.src = "ended", !.emits = Append(@, "imported")])]
  /\ UNCHANGED <<file, crashed, trip>>

\* POST /upload: the 'end' event of the request; pipe's listener calls
\* writeStream.end(), the handler's listener emits 'imported' and answers 200.
UploadEnd(i) ==
  /\ ~crashed
  /\ i \in Ids
  /\ reqs[i].route = "upload"
  /\ reqs[i].src = "flowing"
  /\ Len(reqs[i].left) = 0
  /\ reqs[i].in.ends
  /\ reqs' = [reqs EXCEPT ![i] =
       Settle([Respond(@, 200, <<>>, file) EXCEPT
                 !.src = "ended", !.emits = Append(@, "imported")])]
  /\ UNCHANGED <<file, crashed, trip>>

\* POST /upload: the write stream writes its oldest chunk at the
\* descriptor's offset, or the write fails.
UploadWrite(i) ==
  /\ ~crashed
  /\ i \in Ids
  /\ reqs[i].route = "upload"
  /\ reqs[i].fd = "open"
  /\ Len(reqs[i].wbuf) > 0
  /\ \E ok \in BOOLEAN :
       LET chunk == Head(reqs[i].wbuf)
           file1 == IF ok THEN Holding(WriteAt(file.data, reqs[i].off, chunk))
                    ELSE file
       IN  /\ file' = file1
           /\ crashed' = (~ok /\ reqs[i].status # 0)
           /\ reqs' = [reqs EXCEPT ![i] =
                IF ok
                THEN Settle([@ EXCEPT !.wbuf = Tail(@), !.writes = @ + 1,
                                      !.off = @ + Len(chunk)])
                ELSE OnWriteError(@, file1)]
  /\ UNCHANGED trip

\* ------------------------------------------------------- specifications

Next ==
  \/ \E in \in Inputs : Arrive(in)
  \/ \E i \in 1..MaxReq : ListRead(i)
  \/ \E i \in 1..MaxReq : AddEnd(i)
  \/ \E i \in 1..MaxReq : AddRead(i)
  \/ \E i \in 1..MaxReq : AddOpen(i)
  \/ \E i \in 1..MaxReq : AddWrite(i)
  \/ \E i \in 1..MaxReq : SearchRead(i)
  \/ \E i \in 1..MaxReq : ExportStream(i)
  \/ \E i \in 1..MaxReq : IndexRead(i)
  \/ \E i \in 1..MaxReq : UploadOpen(i)
  \/ \E i \in 1..MaxReq : UploadData(i)
  \/ \E i \in 1..MaxReq : UploadEnd(i)
  \/ \E i \in 1..MaxReq : UploadWrite(i)

\* The server under concurrent requests to every route.
Spec == Init /\ [][Next]_vars

NextAdd ==
  \/ \E in \in AddInputs : Arrive(in)
  \/ \E i \in 1..MaxReq : ListRead(i)
  \/ \E i \in 1..MaxReq : AddEnd(i)
  \/ \E i \in 1..MaxReq : AddRead(i)
  \/ \E i \in 1..MaxReq : AddOpen(i)
  \/ \E i \in 1..MaxReq : AddWrite(i)

\* The server under concurrent adds and lists.
SpecAdd == Init /\ [][NextAdd]_vars

NextRead ==
  \/ \E in \in ReadInputs : Arrive(in)
  \/ \E i \in 1..MaxReq : ListRead(i)
  \/ \E i \in 1..MaxReq : SearchRead(i)
  \/ \E i \in 1..MaxReq : AddEnd(i)
  \/ \E i \in 1..MaxReq : AddRead(i)
  \/ \E i \in 1..MaxReq : AddOpen(i)
  \/ \E i \in 1..MaxReq : AddWrite(i)

\* The server under concurrent lists and searches, beside adds.
SpecRead == Init /\ [][NextRead]_vars

NextClient ==
  \/ \E in \in ClientInputs : ArriveNext(in)
  \/ \E i \in 1..MaxSeq : ListRead(i)
  \/ \E i \in 1..MaxSeq : ExportStream(i)
  \/ \E i \in 1..MaxSeq : UploadOpen(i)
  \/ \E i \in 1..MaxSeq : UploadData(i)
  \/ \E i \in 1..MaxSeq : UploadEnd(i)
  \/ \E i \in 1..MaxSeq : UploadWrite(i)

\* The server under one client that exports, uploads and lists, each request
\* sent after the response to the one before.
SpecClient == Init /\ [][NextClient]_vars

NextBody ==
  \/ \E in \in BodyInputs : Arrive(in)
  \/ \E i \in 1..MaxReq : AddEnd(i)
  \/ \E i \in 1..MaxReq : AddRead(i)
  \/ \E i \in 1..MaxReq : AddOpen(i)
  \/ \E i \in 1..MaxReq : AddWrite(i)
  \/ \E i \in 1..MaxReq : UploadOpen(i)
  \/ \E i \in 1..MaxReq : UploadData(i)
  \/ \E i \in 1..MaxReq : UploadEnd(i)
  \/ \E i \in 1..MaxReq : UploadWrite(i)

\* The server under concurrent adds and uploads, some of whose bodies never
\* end.
SpecBody == Init /\ [][NextBody]_vars

NextRoute ==
  \/ \E in \in RouteInputs : Arrive(in)
  \/ \E i \in 1..MaxReq : ListRead(i)
  \/ \E i \in 1..MaxReq : AddEnd(i)
  \/ \E i \in 1..MaxReq : AddRead(i)
  \/ \E i \in 1..MaxReq : AddOpen(i)
  \/ \E i \in 1..MaxReq : AddWrite(i)

\* The server under concurrent requests, most of which match no route.
SpecRoute == Init /\ [][NextRoute]_vars

NextReadOnly ==
  \/ \E in \in ReadOnlyInputs : Arrive(in)
  \/ \E i \in 1..MaxReq : ListRead(i)
  \/ \E i \in 1..MaxReq : SearchRead(i)
  \/ \E i \in 1..MaxReq : ExportStream(i)
  \/ \E i \in 1..MaxReq : AddEnd(i)
  \/ \E i \in 1..MaxReq : AddRead(i)
  \/ \E i \in 1..MaxReq : AddOpen(i)
  \/ \E i \in 1..MaxReq : AddWrite(i)

\* The server under concurrent lists, searches and exports, beside adds.
SpecReadOnly == Init /\ [][NextReadOnly]_vars

InitCodec ==
  /\ file = Absent
  /\ reqs = <<>>
  /\ crashed = FALSE
  /\ trip \in {[phase |-> "table", students |-> t, loaded |-> <<>>] :
                 t \in Tables}

\* saveStudents(trip.students), the write succeeding.
saveStudents(students) == Holding(csvContent(students))

SaveTable ==
  /\ trip.phase = "table"
  /\ file' = saveStudents(trip.students)
  /\ trip' = [trip EXCEPT !.phase = "saved"]
  /\ UNCHANGED <<reqs, crashed>>

\* getStudents() on the file saveStudents wrote, the read succeeding.
LoadTable ==
  /\ trip.phase = "saved"
  /\ LET g == getStudents([err |-> "", data |-> file.data])
     IN  /\ trip' = [trip EXCEPT !.phase = g.outcome, !.loaded = g.students]
         /\ crashed' = (g.outcome = "throw")
  /\ UNCHANGED <<file, reqs>>

NextCodec == SaveTable \/ LoadTable

\* saveStudents then getStudents on each table of Tables.
SpecCodec == InitCodec /\ [][NextCodec]_vars

\* ------------------------------------------------------------- claims

\* The table a load of file f resolves with (<<>> when the load throws).
TableOf(f) ==
  getStudents(IF f.exists THEN [err |-> "", data |-> f.data]
              ELSE [err |-> "ENOENT", data |-> <<>>]).students

Loads(f) ==
  getStudents(IF f.exists THEN [err |-> "", data |-> f.data]
              ELSE [err |-> "ENOENT", data |-> <<>>]).outcome = "resolve"

Adds201 == {i \in Ids : reqs[i].route = "add" /\ reqs[i].status = 201}

\* Every other request that wrote students.csv had finished when q opened it.
ReplacedLast(q) ==
  \A k \in Ids \ {q} : reqs[k].writes > 0 => k \in reqs[q].wafter

\* p and q are two adds answered 201 whose loads read the same table, and q
\* replaced the file after p had.
Raced(p, q) ==
  /\ p \in Adds201 /\ q \in Adds201 /\ p # q
  /\ reqs[p].students = reqs[q].students
  /\ p \in reqs[q].wafter
  /\ ReplacedLast(q)

\* C1. Lost update: when two adds that loaded the same table T are both
\* answered 201, the file the later replace leaves holds exactly the text of
\* T followed by the later add's record: one row more than T, and the record
\* of the add whose replace finished first is gone.
LostUpdate ==
  \A p, q \in Ids :
    Raced(p, q) =>
      /\ reqs[q].snap =
           Holding(csvContent(Append(reqs[q].students, reqs[q].newStudent)))
      /\ Len(Split(reqs[q].snap.data, NL)) = Len(reqs[q].students) + 2

\* C1 witness: the race happened on a table of at least one record with two
\* different new records, and the file left loads as one record more than T,
\* the last being the later add's.
LostUpdateSeen ==
  \E p, q \in Ids :
    /\ Raced(p, q)
    /\ reqs[p].newStudent # reqs[q].newStudent
    /\ Len(reqs[q].students) > 0
    /\ file = reqs[q].snap
    /\ TableOf(file) = Append(reqs[q].students, reqs[q].newStudent)

\* C2. An add answered 201 with no other request at work leaves a file
\* that loads as a table one record longer than the table T the add loaded,
\* its first |T| records being T in order.
AddAppendsOne ==
  \A i \in Adds201 :
    reqs[i].solo =>
      /\ Loads(reqs[i].snap)
      /\ Len(TableOf(reqs[i].snap)) = Len(reqs[i].students) + 1
      /\ SubSeq(TableOf(reqs[i].snap), 1, Len(reqs[i].students))
           = reqs[i].students

\* The column-to-value mapping of a record.
AsMap(obj) == {obj[i] : i \in 1..Len(obj)}

\* The same records in the same order, each the same mapping.
SameTable(t, u) ==
  /\ Len(t) = Len(u)
  /\ \A i \in 1..Len(t) : AsMap(t[i]) = AsMap(u[i])

TripDone == trip.phase \in {"resolve", "reject", "throw"}

SameKeyOrder(t) == \A i \in 1..Len(t) : Keys(t[i]) = Keys(t[1])

\* No name and no value has leading or trailing whitespace.
AllTrimmed(t) ==
  \A i \in 1..Len(t) : \A k \in 1..Len(t[i]) :
    Trim(t[i][k][1]) = t[i][k][1] /\ Trim(t[i][k][2]) = t[i][k][2]

\* The text of t neither starts nor ends with a character trim() removes: t
\* is empty, or has two columns or more, or has one column with a name and
\* with a value in its last record.
EndsKept(t) ==
  \/ Len(t) = 0
  \/ Len(t[1]) >= 2
  \/ Len(t[1]) = 1 /\ t[1][1][1] # <<>> /\ t[Len(t)][1][2] # <<>>

HandlersNeverCrash == ~crashed

\* C5. Export, then import of the bytes exported, then list: the list
\* returns the table of the exported bytes (the table a list returned before
\* the export).
ExportImportKeepsTable ==
  \A e, u, l \in Ids :
    ( /\ u = e + 1 /\ l = u + 1
      /\ reqs[e].route = "export" /\ reqs[e].status = 200
      /\ reqs[u].route = "upload" /\ reqs[u].status = 200
      /\ e \in reqs[u].after
      /\ Concat(reqs[u].in.chunks) = reqs[e].out
      /\ reqs[l].route = "list" /\ reqs[l].status = 200
      /\ u \in reqs[l].after )
    => reqs[l].out = TableOf(Holding(reqs[e].out))

\* C6. A list that runs beside one add (table T, new record r) returns T or
\* the table the add leaves, never an empty or a cut table.
ListSeesWholeTable ==
  \A l, a \in Ids :
    ( /\ Len(reqs) = 2
      /\ reqs[l].route = "list" /\ reqs[l].status = 200
      /\ reqs[a].route = "add" /\ reqs[a].status = 201 )
    => \/ reqs[l].out = reqs[a].students
       \/ reqs[l].out = TableOf(reqs[a].snap)

\* C7. When an upload with body B is answered 200 and no other request is at
\* work, the file holds exactly B at the moment of the answer.
UploadOverwrites ==
  \A u \in Ids :
    (reqs[u].route = "upload" /\ reqs[u].status = 200 /\ reqs[u].solo)
      => reqs[u].snap = Holding(Concat(reqs[u].in.chunks))

\* The list and search requests whose read of the file met no I/O error
\* other than ENOENT.
Loaded ==
  {i \in Ids : /\ reqs[i].route \in {"list", "search"}
               /\ reqs[i].rerr \in {"", "ENOENT"}}

\* C8. A missing file and an empty file load as the empty table: a list, and
\* a search with a name, that read the file in one of these states are
\* answered 200 with an empty array.
MissingOrEmptyLoadsEmpty ==
  \A i \in Loaded :
    reqs[i].snap \in {Absent, Holding(<<>>)}
      => reqs[i].status = 200 /\ reqs[i].out = <<>>

\* C8 witness: a list and a search with a name both met a missing file and
\* were answered 200.
MissingLoadsEmptySeen ==
  \E i, j \in Loaded :
    /\ reqs[i].route = "list" /\ reqs[j].route = "search"
    /\ reqs[i].rerr = "ENOENT" /\ reqs[j].rerr = "ENOENT"
    /\ reqs[i].status = 200 /\ reqs[j].status = 200

\* The records of table t whose name holds sub, case ignored.
Matching(t, sub) ==
  {k \in 1..Len(t) :
     /\ HasKey(t[k], nameKey)
     /\ includes(toLowerCase(Get(t[k], nameKey)), toLowerCase(sub))}

\* out lists the records of t at the positions M, each once, in t's order.
Selects(out, t, M) ==
  /\ Len(out) = Cardinality(M)
  /\ \A j \in 1..Len(out) :
       out[j] = t[CHOOSE k \in M : Cardinality({m \in M : m < k}) = j - 1]

SearchNeedsName ==
  \A i \in Ids :
    (reqs[i].route = "search"
       /\ (~reqs[i].in.query.has \/ reqs[i].in.query.name = <<>>))
      => reqs[i].status = 400 /\ reqs[i].reads = 0 /\ reqs[i].pc = "done"

\* C10 witness: on a file whose load would throw, a search without the
\* parameter and a search with an empty one were both answered 400.
SearchNeedsNameSeen ==
  /\ file = Holding(csvShort)
  /\ \E i, j \in Ids :
       /\ reqs[i].route = "search" /\ ~reqs[i].in.query.has
       /\ reqs[j].route = "search" /\ reqs[j].in.query.has
       /\ reqs[j].in.query.name = <<>>
       /\ reqs[i].status = 400 /\ reqs[j].status = 400

\* The request's own mutation of students.csv has succeeded: an add has
\* opened and written the file, an upload has opened it and written every
\* chunk of its body.
Mutated(r) ==
  IF r.route = "add" THEN r.writes = 2
  ELSE r.fd = "open" /\ r.wbuf = <<>> /\ r.left = <<>>

\* C11. Every add answered 201 has emitted exactly one 'added' and every
\* upload answered 200 exactly one 'imported'; an add or upload answered 500
\* has emitted nothing; and whenever a request has emitted its notification,
\* its own mutation of the file has already succeeded.
NotifiesAfterMutation ==
  \A i \in Ids :
    LET r == reqs[i]
    IN  /\ r.route = "add" /\ r.status = 201 => r.emits = <<"added">>
        /\ r.route = "upload" /\ r.status = 200 => r.emits = <<"imported">>
        /\ r.status = 500 => r.emits = <<>>
        /\ r.emits # <<>> => Mutated(r)

\* C12 as claimed. An add or an upload whose body never ends is never
\* answered, whatever the file holds and however its I/O ends.
NoEndNoResponse ==
  \A i \in Ids :
    reqs[i].route \in {"add", "upload"} /\ ~reqs[i].in.ends
      => reqs[i].status = 0

\* C12 as amended. An add whose body never ends is never answered, reads
\* nothing and writes nothing; an upload whose body never ends is never
\* answered 200 and emits nothing: it stays unanswered unless its write
\* stream fails, and then it is answered 500.
NoEndNoSuccess ==
  \A i \in Ids :
    LET r == reqs[i]
    IN  ~r.in.ends =>
          /\ r.route = "add" =>
               r.status = 0 /\ r.reads = 0 /\ r.writes = 0 /\ r.emits = <<>>
          /\ r.route = "upload" =>
               /\ r.emits = <<>>
               /\ r.status \in {0, 500}
               /\ r.status = 500 <=> r.fd = "error"

\* C12 witness: an upload whose body never ends has written every chunk it
\* received and is unanswered, beside an add whose body never ends and which
\* is unanswered too.
NoEndNoSuccessSeen ==
  \E i, j \in Ids :
    /\ reqs[i].route = "upload" /\ ~reqs[i].in.ends
    /\ reqs[i].fd = "open" /\ reqs[i].left = <<>> /\ reqs[i].wbuf = <<>>
    /\ reqs[i].writes = 2 /\ file = Holding(csvOne)
    /\ reqs[i].status = 0
    /\ reqs[j].route = "add" /\ ~reqs[j].in.ends /\ reqs[j].status = 0

\* The (method, path) pairs the handler routes.
Routed ==
  { <<"GET", "/">>, <<"GET", "/students">>, <<"POST", "/add">>,
    <<"GET", "/search">>, <<"GET", "/export">>, <<"POST", "/upload">> }

\* C13. Routing: an OPTIONS request on any path is answered 204 with no
\* body; any other request whose method and path are not a routed pair is
\* answered 404 'Route not found'; neither reads nor writes students.csv nor
\* queues any work, and each is answered once.
RoutingRefuses ==
  \A i \in Ids :
    LET r == reqs[i]
    IN  /\ r.in.method = "OPTIONS" =>
             r.status = 204 /\ r.msg = "" /\ r.out = <<>>
        /\ r.in.method # "OPTIONS" /\ <<r.in.method, r.in.path>> \notin Routed =>
             r.status = 404 /\ r.msg = "Route not found"
        /\ r.in.method = "OPTIONS" \/ <<r.in.method, r.in.path>> \notin Routed =>
             /\ r.reads = 0 /\ r.writes = 0 /\ r.fd = "none" /\ r.emits = <<>>
             /\ r.heads = 1 /\ ~Active(r)

\* C13 witness: an OPTIONS request on a routed path and a request with the
\* path of a route under another method have both been answered, the file
\* being absent as at the start.
RoutingRefusesSeen ==
  \E i, j \in Ids :
    /\ reqs[i].in.method = "OPTIONS" /\ reqs[i].in.path = "/add"
    /\ reqs[i].status = 204
    /\ reqs[j].in.method = "DELETE" /\ reqs[j].in.path = "/students"
    /\ reqs[j].status = 404
    /\ file = Absent

\* The string 'name,roll,marks'.
nameRollMarks ==
  <<"n","a","m","e",",","r","o","l","l",",","m","a","r","k","s">>

\* C14. Serializing the empty table: once saveStudents([]) has written, the
\* file holds exactly 'name,roll,marks', with no newline and so no data row,
\* and the load that follows resolves with the empty table.
EmptySavesHeader ==
  trip.students = <<>> =>
    /\ trip.phase # "table" =>
         /\ file = Holding(nameRollMarks)
         /\ \A k \in 1..Len(file.data) : file.data[k] # NL
    /\ trip.phase \notin {"table", "saved"} =>
         trip.phase = "resolve" /\ trip.loaded = <<>>

\* C14 witness: the empty table has been saved and loaded again.
EmptySavesHeaderSeen ==
  /\ trip.students = <<>>
  /\ trip.phase = "resolve"
  /\ file.exists /\ Len(file.data) = 15

\* C15. Read-your-write for add: an add is answered 201 only after its
\* write of the file; and a list that arrived after the 201, no other
\* request having written the file, and whose read met no I/O error, is
\* answered 200 with a table whose last record is the record the 201 echoed.
ReadYourAdd ==
  \A i, j \in Ids :
    LET l == reqs[i]
        a == reqs[j]
    IN  a.route = "add" /\ a.status = 201 =>
          /\ a.writes = 2
          /\ ( /\ l.route = "list" /\ j \in l.after
               /\ \A k \in Ids \ {j} : reqs[k].writes = 0
               /\ l.reads > 0 /\ l.rerr # "EIO" )
             => /\ l.status = 200
                /\ Len(l.out) > 0
                /\ l.out[Len(l.out)] = a.out[1]

\* C16. Each request is answered at most once: no request has had response
\* headers written twice, and a request has a status exactly when headers
\* were written once; an upload whose body ended and whose write stream
\* failed has been sent the 200 or the 500, never both.
AtMostOneResponse ==
  \A i \in Ids :
    /\ reqs[i].heads <= 1
    /\ reqs[i].heads = 1 <=> reqs[i].status # 0
    /\ reqs[i].route = "upload" /\ reqs[i].fd = "error" =>
         /\ reqs[i].src = "ended" => reqs[i].status = 200
         /\ reqs[i].src # "ended" => reqs[i].status = 500

\* C16 witness: the body of an upload ended and the 200 was sent, then its
\* write stream failed: the 500 could not be sent, and the process ended on
\* the exception.
AtMostOneResponseSeen ==
  \E i \in Ids :
    /\ reqs[i].route = "upload" /\ reqs[i].in.ends
    /\ reqs[i].src = "ended" /\ reqs[i].fd = "error"
    /\ reqs[i].status = 200 /\ reqs[i].heads = 1
    /\ crashed

\* C17. An add whose load failed with an I/O error other than ENOENT is
\* answered 500 'Error adding student', has neither opened nor written the
\* file, has emitted nothing and has no work left; as long as no other
\* request has written the file, the file is as the load met it.
AddLoadErrorIs500 ==
  \A i \in Ids :
    LET r == reqs[i]
    IN  r.route = "add" /\ r.rerr = "EIO" =>
          /\ r.status = 500 /\ r.msg = "Error adding student"
          /\ r.writes = 0 /\ r.csv = <<>>
          /\ r.emits = <<>>
          /\ ~Active(r)
          /\ (\A k \in Ids : reqs[k].writes = 0) => file = r.snap

\* C17 witness: an add alone on a file of two records met an I/O error in
\* its load and was answered 500, the file holding the two records still.
AddLoadErrorIs500Seen ==
  \E i \in Ids :
    /\ reqs[i].route = "add" /\ reqs[i].rerr = "EIO"
    /\ reqs[i].status = 500 /\ reqs[i].solo
    /\ reqs[i].newStudent # <<>>
    /\ \A k \in Ids : reqs[k].writes = 0
    /\ file = Holding(csvTwo)

\* C18. Concurrent adds keep the table: when every request is an add that
\* was answered 201 and two of them loaded the same table T (the table the
\* file held at the start), the file loads as T, unchanged and in order,
\* followed by at least one record, each of them a record some add added.
AddsKeepTable ==
  \A p, q \in Ids :
    ( /\ p # q
      /\ \A k \in Ids : k \in Adds201
      /\ reqs[p].students = reqs[q].students )
    => LET T     == reqs[p].students
           F     == TableOf(file)
           added == {reqs[k].newStudent : k \in Adds201}
       IN  /\ Loads(file)
           /\ Len(F) > Len(T)
           /\ SubSeq(F, 1, Len(T)) = T
           /\ \A k \in (Len(T) + 1)..Len(F) : F[k] \in added

ReadOnlyRoute(r) == r.route \in {"list", "search", "export"}

\* A step in which a list, a search or an export arrives, reads or is
\* answered.
ReadOnlyStep ==
  \E i \in 1..Len(reqs') :
    /\ ReadOnlyRoute(reqs'[i])
    /\ \/ i > Len(reqs)
       \/ reqs'[i].reads # reqs[i].reads
       \/ reqs'[i].status # reqs[i].status
       \/ reqs'[i].pc # reqs[i].pc

\* C19. List, search and export are read-only: no such request ever opens
\* or writes students.csv or emits a notification, and every step of such a
\* request leaves the file as it was, existence and content.
ReadOnlyRoutes ==
  /\ [](\A i \in Ids :
          ReadOnlyRoute(reqs[i]) =>
            /\ reqs[i].writes = 0 /\ reqs[i].fd = "none"
            /\ reqs[i].emits = <<>>)
  /\ [][ReadOnlyStep => file' = file]_vars

\* C19 witness: a list and a search with a name have both read a missing
\* file and been answered 200, and the file is missing still.
ReadOnlyRoutesSeen ==
  \E i, j \in Ids :
    /\ reqs[i].route = "list" /\ reqs[i].reads = 1 /\ reqs[i].status = 200
    /\ reqs[j].route = "search" /\ reqs[j].reads = 1 /\ reqs[j].status = 200
    /\ reqs[i].rerr = "ENOENT" /\ reqs[j].rerr = "ENOENT"
    /\ file = Absent

====
